---- MODULE Spec2Model ----
(***************************************************************************)
(* Model of src/main.py: the /convert/ endpoint of the AAC-to-MP4           *)
(* converter.  Each job is one call of convert_to_mp4_with_subtitles; its  *)
(* steps are the stretches of code between two awaits, which asyncio runs  *)
(* atomically.  Strings (file names, paths, arguments, stderr) are          *)
(* sequences of tokens: a token is either one character that the code      *)
(* treats specially (":", "\\", "/", "_", white space) or a block of        *)
(* ordinary characters.                                                     *)
(***************************************************************************)
EXTENDS Integers, Sequences, FiniteSets, TLC

(* ------------------------------ bounds --------------------------------- *)

\* Number of body chunks the response sends for the output file.
MaxChunks == 2

\* Longest list handed to cleanup_files where the function is checked alone.
MaxListLen == 3

(* ----------------------------- constants ------------------------------- *)

\* The requests in flight; NoJob: the event loop is free.
Jobs == {"j1", "j2"}

NoJob == "none"

\* The value uuid.uuid4() returns in each job: one block token (36 ordinary
\* characters, none of them special), different in every call.
UUIDs == ("j1" :> "uuid-A") @@ ("j2" :> "uuid-B")

\* None, for an Optional path or an absent upload.
None == <<>>

TEMP_DIR == <<"temp_files">>

LOGO_PATH == <<"logo.png">>

\* File names a client can send in the audio part.
AudioNames ==
    { <<"clip.aac">>, <<"output.mp4">>,
      <<"x", "/", "..", "/", "uuid-B", "_", "clip.aac">> }

\* File names a client can send in the subtitle part (None: no subtitle part).
SubtitleNames == { None, <<"clip.aac">>, <<"c", ":", "\\", "s.srt">> }

\* Values of the subtitle_mode query parameter that reach the handler.
SubtitleModes == { "hard", "soft", "other" }

\* A byte that is not valid UTF-8.
BadByte == "0xFF"

WhiteSpace == { " ", "\n" }

\* What the external process can leave on its stderr pipe.
StderrValues == { <<>>, <<" ", "Invalid data", "\n">>, <<"Invalid", BadByte>> }

(* ------------------------------ state ---------------------------------- *)

VARIABLES
    pc,               \* where each job's coroutine is suspended
    loop,             \* the job whose code occupies the event-loop thread
    job_id,           \* line 78
    audio_name,       \* audio_file.filename
    sub_name,         \* subtitle_file.filename, None without subtitle part
    subtitle_mode,    \* the query parameter
    files_to_clean,   \* line 79
    input_aac_path,   \* line 83
    input_srt_path,   \* lines 87-89
    output_mp4_path,  \* line 93
    cmd,              \* lines 97-124
    proc,             \* the ffmpeg child process of the job
    resp,             \* what the caller receives
    sent,             \* body chunks transmitted so far
    disk,             \* the files that exist: path -> [owner, data]
    created,          \* history: paths the job has caused to exist
    passed,           \* history: the lists given to cleanup_files, in order
    nImmediate,       \* history: calls of cleanup_files at line 148
    nDeferred,        \* history: runs of the BackgroundTask of line 143
    fault             \* history: the fault raised in the job, if any

vars == << pc, loop, job_id, audio_name, sub_name, subtitle_mode,
           files_to_clean, input_aac_path, input_srt_path, output_mp4_path,
           cmd, proc, resp, sent, disk, created, passed, nImmediate,
           nDeferred, fault >>

(* -------------------------- pure functions ----------------------------- *)

\* A one-token string.
S(t) == << t >>

SeqToSet(s) == { s[i] : i \in DOMAIN s }

\* Faulty variant: the scratch name is the upload's name alone.
ScratchPathNoJobId(id, filename) == TEMP_DIR \o << "/" >> \o filename

\* f"{job_id}_{filename}" under TEMP_DIR (lines 83, 89, 93).
ScratchPath(id, filename) == TEMP_DIR \o << "/", id, "_" >> \o filename

\* str.replace(old, new) for a one-character old and a token sequence new.
RECURSIVE Replace(_, _, _)
Replace(s, old, new) ==
    IF s = <<>> THEN <<>>
    ELSE (IF Head(s) = old THEN new ELSE << Head(s) >>)
         \o Replace(Tail(s), old, new)

\* Line 55: backslashes become slashes, then every colon gets a backslash.
escape_ffmpeg_path(path_str) ==
    Replace(Replace(path_str, "\\", << "/" >>), ":", << "\\", ":" >>)

\* bytes.decode() is strict UTF-8: it raises on a byte that is not UTF-8.
Decodable(bytes) == BadByte \notin SeqToSet(bytes)

\* str.strip(): leading and trailing white space removed.
RECURSIVE LStrip(_)
LStrip(s) ==
    IF s # <<>> /\ Head(s) \in WhiteSpace THEN LStrip(Tail(s)) ELSE s

RECURSIVE RStrip(_)
RStrip(s) ==
    IF s # <<>> /\ s[Len(s)] \in WhiteSpace
    THEN RStrip(SubSeq(s, 1, Len(s) - 1)) ELSE s

Strip(s) == RStrip(LStrip(s))

\* Path.unlink() on an existing file.
Unlink(d, path) == [ q \in (DOMAIN d) \ { path } |-> d[q] ]

\* Lines 43-47: each path that is not None and exists is unlinked, in order.
RECURSIVE cleanup_files(_, _)
cleanup_files(d, paths) ==
    IF paths = <<>> THEN d
    ELSE LET path == Head(paths)
         IN  cleanup_files(
                 IF path # None /\ path \in DOMAIN d THEN Unlink(d, path) ELSE d,
                 Tail(paths))

\* Faulty variant: the entry is unlinked whether or not the file exists.
ShouldUnlinkNotNone(d, path) == path # None

\* Line 46: the entry is not None and the file exists.
ShouldUnlink(d, path) == path # None /\ path \in DOMAIN d

\* Path.unlink(), line 47, with its outcome: FileNotFoundError for a file
\* that is not there, PermissionError where the operating system refuses the
\* deletion (the paths in refused), and otherwise the file is gone.
PathUnlink(d, path, refused) ==
    IF path \notin DOMAIN d
    THEN [ disk |-> d, raised |-> "FileNotFoundError" ]
    ELSE IF path \in refused
         THEN [ disk |-> d, raised |-> "PermissionError" ]
         ELSE [ disk |-> Unlink(d, path), raised |-> "" ]

\* Lines 43-47 with the exceptions of unlink: the loop has no try, so the
\* first unlink that raises ends the call and the rest of the list is not
\* visited.  With refused = {} the disk is that of cleanup_files.
RECURSIVE cleanup_files_raising(_, _, _)
cleanup_files_raising(d, paths, refused) ==
    IF paths = <<>> THEN [ disk |-> d, raised |-> "" ]
    ELSE LET path == Head(paths)
         IN  IF ShouldUnlink(d, path)
             THEN LET r == PathUnlink(d, path, refused)
                  IN  IF r.raised # "" THEN r
                      ELSE cleanup_files_raising(r.disk, Tail(paths), refused)
             ELSE cleanup_files_raising(d, Tail(paths), refused)

\* open(destination, "wb"), line 157, needs the directory of the path to
\* exist (POSIX resolves every component).  The scratch directory holds
\* regular files only: the program creates no directory but TEMP_DIR (line 19).
CanOpen(path) ==
    "/" \notin SeqToSet(SubSeq(path, Len(TEMP_DIR) + 2, Len(path)))

\* open(destination, "wb") then f.write(contents), lines 157-158.
WriteFile(d, path, who, what) ==
    [ q \in (DOMAIN d) \cup { path } |->
        IF q = path THEN [ owner |-> who, data |-> what ] ELSE d[q] ]

\* Faulty variant: the subtitle file is an input whatever the mode.
SoftInputAnyMode(srt, mode) ==
    IF srt # None THEN << S("-i"), srt >> ELSE <<>>

\* Lines 103-104: the subtitle file as third input.
SoftInput(srt, mode) ==
    IF srt # None /\ mode = "soft" THEN << S("-i"), srt >> ELSE <<>>

\* Faulty variant: a subtitle is burnt in whatever the mode.
SubtitleSettingsAlwaysBurn(srt, mode) ==
    IF srt # None
    THEN << S("-vf"), S("subtitles=") \o escape_ffmpeg_path(srt) >>
    ELSE <<>>

\* Faulty variant: the treatment is chosen by the upload's name, and a file
\* that is not named as a subtitle file gets none.
SubtitleSettingsBySuffix(srt, mode) ==
    IF srt # None /\ srt[Len(srt)] = "s.srt"
    THEN IF mode = "hard"
         THEN << S("-vf"), S("subtitles=") \o escape_ffmpeg_path(srt) >>
         ELSE << S("-c:s"), S("mov_text"), S("-metadata:s:s:0"), S("language=eng") >>
    ELSE <<>>

\* Lines 111-118: burn-in filter or subtitle track.
SubtitleSettings(srt, mode) ==
    IF srt # None
    THEN IF mode = "hard"
         THEN << S("-vf"), S("subtitles=") \o escape_ffmpeg_path(srt) >>
         ELSE << S("-c:s"), S("mov_text"), S("-metadata:s:s:0"), S("language=eng") >>
    ELSE <<>>

\* Faulty variant: the vector lacks the stop-at-shortest option.
BuildCmdNoShortest(aac, srt, mode, out) ==
    << S("ffmpeg") >>
    \o << S("-loop"), S("1"), S("-i"), LOGO_PATH >>
    \o << S("-i"), aac >>
    \o SoftInput(srt, mode)
    \o << S("-c:v"), S("libx264"), S("-tune"), S("stillimage"),
          S("-pix_fmt"), S("yuv420p") >>
    \o << S("-c:a"), S("copy") >>
    \o SubtitleSettings(srt, mode)
    \o << S("-y"), out >>

\* Lines 97-124: the argument vector.
BuildCmd(aac, srt, mode, out) ==
    << S("ffmpeg") >>
    \o << S("-loop"), S("1"), S("-i"), LOGO_PATH >>
    \o << S("-i"), aac >>
    \o SoftInput(srt, mode)
    \o << S("-c:v"), S("libx264"), S("-tune"), S("stillimage"),
          S("-pix_fmt"), S("yuv420p") >>
    \o << S("-c:a"), S("copy") >>
    \o SubtitleSettings(srt, mode)
    \o << S("-shortest") >>
    \o << S("-y"), out >>

(* ---------------------------- the handler ------------------------------ *)

\* str(uuid.uuid4()), line 78.
uuid4(j) == UUIDs[j]

\* Faulty variant: a blocking call keeps the event-loop thread.
BlockingCall(j) == j

\* An await hands the event-loop thread back (lines 84, 90, 127, 130, 156).
AwaitSuspends(j) == NoJob

NoResponse == [ status |-> 0, detail |-> <<>>, path |-> None, background |-> <<>> ]

NoProcess == [ state |-> "none", returncode |-> 0, stderr |-> <<>> ]

\* Exceptions the handler's code can raise.
Error(type, msg) == [ type |-> type, status_code |-> 500, detail |-> msg ]

\* Lines 149-151: an HTTPException is re-raised, anything else is wrapped.
ErrorResponse(e) ==
    [ status     |-> IF e.type = "HTTPException" THEN e.status_code ELSE 500,
      detail     |-> e.detail,
      path       |-> None,
      background |-> <<>> ]

\* Faulty variant: the background task is given the output path only.
FileResponseOutputOnly(out, ftc) ==
    [ status |-> 200, detail |-> <<>>, path |-> out, background |-> << out >> ]

\* Lines 139-144: the response carries the output path and the cleanup task.
FileResponse(out, ftc) ==
    [ status |-> 200, detail |-> <<>>, path |-> out, background |-> ftc ]

\* Faulty variant: the except block cleans up and, with no raise, falls
\* through to a normal response.
ExceptThenRespond(j, d, ftc, e) ==
    /\ disk' = cleanup_files(d, ftc)
    /\ passed' = [ passed EXCEPT ![j] = Append(@, ftc) ]
    /\ nImmediate' = [ nImmediate EXCEPT ![j] = @ + 1 ]
    /\ resp' = [ resp EXCEPT ![j] =
                   [ status |-> 200, detail |-> <<>>, path |-> None,
                     background |-> <<>> ] ]
    /\ fault' = [ fault EXCEPT ![j] = e.type ]
    /\ pc' = [ pc EXCEPT ![j] = "SUCCEEDED" ]
    /\ files_to_clean' = [ files_to_clean EXCEPT ![j] = ftc ]
    /\ loop' = NoJob

\* Lines 146-151: the except block, entered with disk d and cleanup list ftc.
Except(j, d, ftc, e) ==
    /\ disk' = cleanup_files(d, ftc)
    /\ passed' = [ passed EXCEPT ![j] = Append(@, ftc) ]
    /\ nImmediate' = [ nImmediate EXCEPT ![j] = @ + 1 ]
    /\ resp' = [ resp EXCEPT ![j] = ErrorResponse(e) ]
    /\ fault' = [ fault EXCEPT ![j] = e.type ]
    /\ pc' = [ pc EXCEPT ![j] = "FAILED" ]
    /\ files_to_clean' = [ files_to_clean EXCEPT ![j] = ftc ]
    /\ loop' = NoJob

\* What the caller receives when an exception other than HTTPException leaves
\* the handler: the server's bare 500.
ServerErrorResponse ==
    [ status |-> 500, detail |-> S("Internal Server Error"), path |-> None,
      background |-> <<>> ]

\* Lines 146-151 where the operating system refuses the unlink of the paths
\* in refused: line 148 is not inside a try, so an exception of cleanup_files
\* leaves the handler in place of e.
ExceptRaising(j, d, ftc, e, refused) ==
    LET r == cleanup_files_raising(d, ftc, refused)
    IN  /\ disk' = r.disk
        /\ passed' = [ passed EXCEPT ![j] = Append(@, ftc) ]
        /\ nImmediate' = [ nImmediate EXCEPT ![j] = @ + 1 ]
        /\ resp' = [ resp EXCEPT ![j] =
                       IF r.raised = "" THEN ErrorResponse(e)
                       ELSE ServerErrorResponse ]
        /\ fault' = [ fault EXCEPT ![j] =
                        IF r.raised = "" THEN e.type ELSE r.raised ]
        /\ pc' = [ pc EXCEPT ![j] = "FAILED" ]
        /\ files_to_clean' = [ files_to_clean EXCEPT ![j] = ftc ]
        /\ loop' = NoJob

\* Lines 93-127: output path, argument vector, then await of the launch.
BuildAndLaunch(j, d, ftc, srt) ==
    LET out == ScratchPath(job_id[j], S("output.mp4"))
    IN  /\ output_mp4_path' = [ output_mp4_path EXCEPT ![j] = out ]
        /\ files_to_clean' = [ files_to_clean EXCEPT ![j] = Append(ftc, out) ]
        /\ cmd' = [ cmd EXCEPT ![j] =
                      BuildCmd(input_aac_path[j], srt, subtitle_mode[j], out) ]
        /\ disk' = d
        /\ pc' = [ pc EXCEPT ![j] = "COMMAND_BUILT" ]
        /\ loop' = AwaitSuspends(j)
        /\ UNCHANGED << passed, nImmediate, resp, fault >>

\* Lines 78-84, 156: a request arrives; the handler runs to the first await.
Receive(j) ==
    /\ pc[j] = "IDLE"
    /\ loop \in { NoJob, j }
    /\ \E a \in AudioNames, s \in SubtitleNames, m \in SubtitleModes :
          /\ audio_name' = [ audio_name EXCEPT ![j] = a ]
          /\ sub_name' = [ sub_name EXCEPT ![j] = s ]
          /\ subtitle_mode' = [ subtitle_mode EXCEPT ![j] = m ]
          /\ job_id' = [ job_id EXCEPT ![j] = uuid4(j) ]
          /\ input_aac_path' =
                 [ input_aac_path EXCEPT ![j] = ScratchPath(uuid4(j), a) ]
    /\ pc' = [ pc EXCEPT ![j] = "RECEIVED" ]
    /\ loop' = AwaitSuspends(j)
    /\ UNCHANGED << files_to_clean, input_srt_path, output_mp4_path, cmd, proc,
                    resp, sent, disk, created, passed, nImmediate, nDeferred,
                    fault >>

\* Lines 84-94, 154-158: the audio upload is read and written to disk.
SaveAudio(j) ==
    /\ pc[j] = "RECEIVED"
    /\ loop \in { NoJob, j }
    /\ LET dst == input_aac_path[j]
       IN  \/ \* upload_file.read() raises (line 156)
              /\ Except(j, disk, <<>>, Error("IOError", S("read failed")))
              /\ UNCHANGED << created, input_srt_path, output_mp4_path, cmd >>
           \/ \* open() raises (line 157): no file is created
              /\ Except(j, disk, <<>>, Error("OSError", S("open failed")))
              /\ UNCHANGED << created, input_srt_path, output_mp4_path, cmd >>
           \/ \* f.write() raises (line 158): open() has created the file
              /\ CanOpen(dst)
              /\ Except(j, WriteFile(disk, dst, j, "partial"), <<>>,
                        Error("OSError", S("write failed")))
              /\ created' = [ created EXCEPT ![j] = @ \cup { dst } ]
              /\ UNCHANGED << input_srt_path, output_mp4_path, cmd >>
           \/ \* saved; a subtitle part follows (lines 88-90)
              /\ sub_name[j] # None
              /\ CanOpen(dst)
              /\ created' = [ created EXCEPT ![j] = @ \cup { dst } ]
              /\ disk' = WriteFile(disk, dst, j, "audio")
              /\ files_to_clean' = [ files_to_clean EXCEPT ![j] = << dst >> ]
              /\ input_srt_path' = [ input_srt_path EXCEPT ![j] =
                                       ScratchPath(job_id[j], sub_name[j]) ]
              /\ pc' = [ pc EXCEPT ![j] = "AUDIO_SAVED" ]
              /\ loop' = AwaitSuspends(j)
              /\ UNCHANGED << output_mp4_path, cmd, passed, nImmediate, resp,
                              fault >>
           \/ \* saved; no subtitle part (line 87)
              /\ sub_name[j] = None
              /\ CanOpen(dst)
              /\ created' = [ created EXCEPT ![j] = @ \cup { dst } ]
              /\ input_srt_path' = [ input_srt_path EXCEPT ![j] = None ]
              /\ BuildAndLaunch(j, WriteFile(disk, dst, j, "audio"), << dst >>, None)
    /\ UNCHANGED << job_id, audio_name, sub_name, subtitle_mode,
                    input_aac_path, proc, sent, nDeferred >>

\* Lines 90-94, 154-158: the subtitle upload is read and written to disk.
SaveSubtitle(j) ==
    /\ pc[j] = "AUDIO_SAVED"
    /\ loop \in { NoJob, j }
    /\ LET dst == input_srt_path[j]
           ftc == files_to_clean[j]
       IN  \/ /\ Except(j, disk, ftc, Error("IOError", S("read failed")))
              /\ UNCHANGED << created, output_mp4_path, cmd >>
           \/ /\ Except(j, disk, ftc, Error("OSError", S("open failed")))
              /\ UNCHANGED << created, output_mp4_path, cmd >>
           \/ /\ CanOpen(dst)
              /\ Except(j, WriteFile(disk, dst, j, "partial"), ftc,
                        Error("OSError", S("write failed")))
              /\ created' = [ created EXCEPT ![j] = @ \cup { dst } ]
              /\ UNCHANGED << output_mp4_path, cmd >>
           \/ /\ CanOpen(dst)
              /\ created' = [ created EXCEPT ![j] = @ \cup { dst } ]
              /\ BuildAndLaunch(j, WriteFile(disk, dst, j, "subtitle"),
                                Append(ftc, dst), dst)
    /\ UNCHANGED << job_id, audio_name, sub_name, subtitle_mode,
                    input_aac_path, input_srt_path, proc, sent, nDeferred >>

\* Line 127: asyncio.create_subprocess_exec starts the child or raises.
Launch(j) ==
    /\ pc[j] = "COMMAND_BUILT"
    /\ loop \in { NoJob, j }
    /\ \/ /\ proc' = [ proc EXCEPT ![j].state = "running" ]
          /\ pc' = [ pc EXCEPT ![j] = "RUNNING" ]
          /\ loop' = AwaitSuspends(j)
          /\ UNCHANGED << files_to_clean, resp, disk, passed, nImmediate, fault >>
       \/ /\ Except(j, disk, files_to_clean[j],
                    Error("OSError", S("exec failed")))
          /\ UNCHANGED proc
    /\ UNCHANGED << job_id, audio_name, sub_name, subtitle_mode,
                    input_aac_path, input_srt_path, output_mp4_path, cmd, sent,
                    created, nDeferred >>

\* The child process writes (-y: overwrites) the file its last argument names.
ProcWrite(j) ==
    /\ proc[j].state = "running"
    /\ LET out == cmd[j][Len(cmd[j])]
       IN  /\ disk' = WriteFile(disk, out, j, "video")
           /\ created' = [ created EXCEPT ![j] = @ \cup { out } ]
    /\ proc' = [ proc EXCEPT ![j].state = "wrote" ]
    /\ UNCHANGED << pc, loop, job_id, audio_name, sub_name, subtitle_mode,
                    files_to_clean, input_aac_path, input_srt_path,
                    output_mp4_path, cmd, resp, sent, passed, nImmediate,
                    nDeferred, fault >>

\* Faulty variant: the scratch files are deleted when the handler returns.
ReturnResponseCleaningNow(j, d, ftc) ==
    /\ resp' = [ resp EXCEPT ![j] =
                   [ status |-> 200, detail |-> <<>>,
                     path |-> output_mp4_path[j], background |-> <<>> ] ]
    /\ pc' = [ pc EXCEPT ![j] = "SUCCEEDED" ]
    /\ loop' = NoJob
    /\ disk' = cleanup_files(d, ftc)
    /\ passed' = [ passed EXCEPT ![j] = Append(@, ftc) ]
    /\ nImmediate' = [ nImmediate EXCEPT ![j] = @ + 1 ]
    /\ UNCHANGED << files_to_clean, fault >>

\* Faulty variant: any text on stderr is taken for a failure, whatever the
\* exit status.
ReturnResponseIfQuiet(j, d, ftc) ==
    IF proc'[j].stderr # <<>>
    THEN Except(j, d, ftc,
                [ type |-> "HTTPException", status_code |-> 500,
                  detail |-> S("FFmpeg conversion failed: ") ])
    ELSE /\ resp' = [ resp EXCEPT ![j] = FileResponse(output_mp4_path[j], ftc) ]
         /\ pc' = [ pc EXCEPT ![j] = "SUCCEEDED" ]
         /\ loop' = NoJob
         /\ disk' = d
         /\ UNCHANGED << files_to_clean, passed, nImmediate, fault >>

\* Lines 138-144: the handler returns the response; nothing is deleted here,
\* the deletion is the response's background task.
ReturnResponse(j, d, ftc) ==
    /\ resp' = [ resp EXCEPT ![j] = FileResponse(output_mp4_path[j], ftc) ]
    /\ pc' = [ pc EXCEPT ![j] = "SUCCEEDED" ]
    /\ loop' = AwaitSuspends(j)
    /\ disk' = d
    /\ UNCHANGED << files_to_clean, passed, nImmediate, fault >>

\* Lines 132-136: what a non-zero exit raises.
TranscodeError(stderr) ==
    IF Decodable(stderr)
    THEN [ type |-> "HTTPException", status_code |-> 500,
           detail |-> S("FFmpeg conversion failed: ") \o Strip(stderr) ]
    ELSE Error("UnicodeDecodeError", S("'utf-8' codec can't decode byte"))

\* Lines 130-144: communicate() returns the child's exit status and stderr.
ProcExit(j) ==
    /\ pc[j] = "RUNNING"
    /\ loop \in { NoJob, j }
    /\ proc[j].state \in { "running", "wrote" }
    /\ \E rc \in { 0, 1 }, err \in StderrValues :
          /\ rc = 0 => proc[j].state = "wrote"
          /\ proc' = [ proc EXCEPT ![j] =
                         [ state |-> "exited", returncode |-> rc, stderr |-> err ] ]
          /\ IF rc # 0
             THEN Except(j, disk, files_to_clean[j], TranscodeError(err))
             ELSE ReturnResponse(j, disk, files_to_clean[j])
    /\ UNCHANGED << job_id, audio_name, sub_name, subtitle_mode,
                    input_aac_path, input_srt_path, output_mp4_path, cmd, sent,
                    created, nDeferred >>

\* Lines 130-151 as ProcExit, where the operating system may refuse the
\* deletion of one of the job's files during the cleanup of line 148.
ProcExitRaising(j) ==
    /\ pc[j] = "RUNNING"
    /\ loop \in { NoJob, j }
    /\ proc[j].state \in { "running", "wrote" }
    /\ \E rc \in { 0, 1 }, err \in StderrValues :
          /\ rc = 0 => proc[j].state = "wrote"
          /\ proc' = [ proc EXCEPT ![j] =
                         [ state |-> "exited", returncode |-> rc, stderr |-> err ] ]
          /\ IF rc # 0
             THEN \E p \in SeqToSet(files_to_clean[j]) \cup { None } :
                      ExceptRaising(j, disk, files_to_clean[j],
                                    TranscodeError(err), { p } \ { None })
             ELSE ReturnResponse(j, disk, files_to_clean[j])
    /\ UNCHANGED << job_id, audio_name, sub_name, subtitle_mode,
                    input_aac_path, input_srt_path, output_mp4_path, cmd, sent,
                    created, nDeferred >>

\* Lines 81, 146: CancelledError, thrown into the coroutine at an await, is a
\* BaseException: "except Exception" does not catch it.
Cancel(j) ==
    /\ pc[j] \in { "RECEIVED", "AUDIO_SAVED", "COMMAND_BUILT", "RUNNING" }
    /\ loop \in { NoJob, j }
    /\ pc' = [ pc EXCEPT ![j] = "CANCELLED" ]
    /\ fault' = [ fault EXCEPT ![j] = "CancelledError" ]
    /\ loop' = NoJob
    /\ UNCHANGED << job_id, audio_name, sub_name, subtitle_mode, files_to_clean,
                    input_aac_path, input_srt_path, output_mp4_path, cmd, proc,
                    resp, sent, disk, created, passed, nImmediate, nDeferred >>

(* ---------------------- delivery of the response ----------------------- *)

\* Line 139: the framework sends the next chunk of the file at resp.path.
SendChunk(j) ==
    /\ pc[j] = "SUCCEEDED"
    /\ loop \in { NoJob, j }
    /\ resp[j].path \in DOMAIN disk
    /\ sent[j] < MaxChunks
    /\ sent' = [ sent EXCEPT ![j] = @ + 1 ]
    /\ pc' = [ pc EXCEPT ![j] = IF sent'[j] = MaxChunks THEN "SENT" ELSE @ ]
    /\ loop' = AwaitSuspends(j)
    /\ UNCHANGED << job_id, audio_name, sub_name, subtitle_mode, files_to_clean,
                    input_aac_path, input_srt_path, output_mp4_path, cmd, proc,
                    resp, disk, created, passed, nImmediate, nDeferred, fault >>

\* Lines 139-144: the caller goes away while the body is being sent.  The
\* response either has the rest of its sends dropped and completes, or has a
\* send raise; a BackgroundTask runs only after a response that completed.
Disconnect(j) ==
    /\ pc[j] = "SUCCEEDED"
    /\ loop \in { NoJob, j }
    /\ fault' = [ fault EXCEPT ![j] = "ClientDisconnect" ]
    /\ \/ pc' = [ pc EXCEPT ![j] = "SENT" ]
       \/ pc' = [ pc EXCEPT ![j] = "ABORTED" ]
    /\ loop' = NoJob
    /\ UNCHANGED << job_id, audio_name, sub_name, subtitle_mode, files_to_clean,
                    input_aac_path, input_srt_path, output_mp4_path, cmd, proc,
                    resp, sent, disk, created, passed, nImmediate, nDeferred >>

\* Line 143: the BackgroundTask calls cleanup_files(files_to_clean).
RunBackground(j) ==
    /\ pc[j] = "SENT"
    /\ loop \in { NoJob, j }
    /\ disk' = cleanup_files(disk, resp[j].background)
    /\ passed' = [ passed EXCEPT ![j] = Append(@, resp[j].background) ]
    /\ nDeferred' = [ nDeferred EXCEPT ![j] = @ + 1 ]
    /\ pc' = [ pc EXCEPT ![j] = "DELIVERED" ]
    /\ loop' = NoJob
    /\ UNCHANGED << job_id, audio_name, sub_name, subtitle_mode, files_to_clean,
                    input_aac_path, input_srt_path, output_mp4_path, cmd, proc,
                    resp, sent, created, nImmediate, fault >>

(* -------------------------- specification ------------------------------ *)

Init ==
    /\ pc = [ j \in Jobs |-> "IDLE" ]
    /\ loop = NoJob
    /\ job_id = [ j \in Jobs |-> "" ]
    /\ audio_name = [ j \in Jobs |-> None ]
    /\ sub_name = [ j \in Jobs |-> None ]
    /\ subtitle_mode = [ j \in Jobs |-> "hard" ]
    /\ files_to_clean = [ j \in Jobs |-> <<>> ]
    /\ input_aac_path = [ j \in Jobs |-> None ]
    /\ input_srt_path = [ j \in Jobs |-> None ]
    /\ output_mp4_path = [ j \in Jobs |-> None ]
    /\ cmd = [ j \in Jobs |-> <<>> ]
    /\ proc = [ j \in Jobs |-> NoProcess ]
    /\ resp = [ j \in Jobs |-> NoResponse ]
    /\ sent = [ j \in Jobs |-> 0 ]
    /\ disk = <<>>
    /\ created = [ j \in Jobs |-> {} ]
    /\ passed = [ j \in Jobs |-> <<>> ]
    /\ nImmediate = [ j \in Jobs |-> 0 ]
    /\ nDeferred = [ j \in Jobs |-> 0 ]
    /\ fault = [ j \in Jobs |-> "" ]

\* One step of job j's coroutine, of its response or of its child process.
JobStep(j) ==
    \/ Receive(j)
    \/ SaveAudio(j)
    \/ SaveSubtitle(j)
    \/ Launch(j)
    \/ ProcExit(j)
    \/ Cancel(j)
    \/ SendChunk(j)
    \/ Disconnect(j)
    \/ RunBackground(j)

Next == \E j \in Jobs : JobStep(j) \/ ProcWrite(j)

Spec == Init /\ [][Next]_vars

\* The handler up to its argument vector: the uploads are saved, the paths
\* allocated and the vector built (lines 78-124); nothing is launched.
NextBuild == \E j \in Jobs : Receive(j) \/ SaveAudio(j) \/ SaveSubtitle(j)

SpecBuild == Init /\ [][NextBuild]_vars

\* The handler up to the exit of the child process, where the operating
\* system may refuse a deletion of the cleanup that follows a failure.
NextFailure ==
    \E j \in Jobs :
        \/ Receive(j)
        \/ SaveAudio(j)
        \/ SaveSubtitle(j)
        \/ Launch(j)
        \/ ProcWrite(j)
        \/ ProcExitRaising(j)

SpecFailure == Init /\ [][NextFailure]_vars

\* cleanup_files alone (lines 43-47): every job holds a list of at most
\* MaxListLen entries, each None or one of its scratch paths, in any order and
\* with repetitions, and any of the paths may exist.
CleanPaths(j) ==
    { ScratchPath(UUIDs[j], <<"clip.aac">>),
      ScratchPath(UUIDs[j], <<"output.mp4">>) }

AllCleanPaths == UNION { CleanPaths(j) : j \in Jobs }

PathLists(X) == UNION { [ 1..k -> X ] : k \in 0..MaxListLen }

InitCleanup ==
    /\ pc = [ j \in Jobs |-> "IDLE" ]
    /\ loop = NoJob
    /\ job_id = UUIDs
    /\ audio_name = [ j \in Jobs |-> None ]
    /\ sub_name = [ j \in Jobs |-> None ]
    /\ subtitle_mode = [ j \in Jobs |-> "hard" ]
    /\ files_to_clean \in
           { f \in [ Jobs -> PathLists(AllCleanPaths \cup { None }) ] :
               \A j \in Jobs : SeqToSet(f[j]) \subseteq CleanPaths(j) \cup { None } }
    /\ input_aac_path = [ j \in Jobs |-> None ]
    /\ input_srt_path = [ j \in Jobs |-> None ]
    /\ output_mp4_path = [ j \in Jobs |-> None ]
    /\ cmd = [ j \in Jobs |-> <<>> ]
    /\ proc = [ j \in Jobs |-> NoProcess ]
    /\ resp = [ j \in Jobs |-> NoResponse ]
    /\ sent = [ j \in Jobs |-> 0 ]
    /\ \E P \in SUBSET AllCleanPaths :
          disk = [ p \in P |->
                     [ owner |-> CHOOSE j \in Jobs : p \in CleanPaths(j),
                       data  |-> "audio" ] ]
    /\ created = [ j \in Jobs |-> CleanPaths(j) \cap DOMAIN disk ]
    /\ passed = [ j \in Jobs |-> <<>> ]
    /\ nImmediate = [ j \in Jobs |-> 0 ]
    /\ nDeferred = [ j \in Jobs |-> 0 ]
    /\ fault = [ j \in Jobs |-> "" ]

\* One call cleanup_files(files_to_clean) in job j; the job is CLEANED when the
\* call has ended, and fault holds the exception it raised, if any.
CallCleanup(j) ==
    /\ pc[j] = "IDLE"
    /\ LET r == cleanup_files_raising(disk, files_to_clean[j], {})
       IN  /\ disk' = r.disk
           /\ fault' = [ fault EXCEPT ![j] = r.raised ]
    /\ passed' = [ passed EXCEPT ![j] = Append(@, files_to_clean[j]) ]
    /\ pc' = [ pc EXCEPT ![j] = "CLEANED" ]
    /\ UNCHANGED << loop, job_id, audio_name, sub_name, subtitle_mode,
                    files_to_clean, input_aac_path, input_srt_path,
                    output_mp4_path, cmd, proc, resp, sent, created,
                    nImmediate, nDeferred >>

NextCleanup == \E j \in Jobs : CallCleanup(j)

SpecCleanup == InitCleanup /\ [][NextCleanup]_vars

(* ------------------------------ claims --------------------------------- *)

\* The scratch paths of a job: audio input, subtitle input, output.
JobPaths(j) ==
    { input_aac_path[j], input_srt_path[j], output_mp4_path[j] } \ { None }

Exists(path) == path \in DOMAIN disk

\* The handler and the response of the job have both ended.
Finished(j) == pc[j] \in { "FAILED", "CANCELLED", "DELIVERED", "ABORTED" }

\* The handler's coroutine is suspended at one of its awaits.
Awaiting(j) == pc[j] \in { "RECEIVED", "AUDIO_SAVED", "COMMAND_BUILT", "RUNNING" }

\* C1: on every exit path of a job, cleanup of its scratch files has run
\* exactly once: not zero times, and not both immediately and deferred.
C1_CleanupExactlyOnce ==
    \A j \in Jobs :
        /\ nImmediate[j] + nDeferred[j] <= 1
        /\ Finished(j) => nImmediate[j] + nDeferred[j] = 1

\* C2: for a job that ended FAILED, the paths passed to cleanup are exactly
\* the scratch paths the job had created on disk.
C2_FailedCleanupEqualsCreated ==
    \A j \in Jobs :
        pc[j] = "FAILED" =>
            /\ Len(passed[j]) = 1
            /\ SeqToSet(passed[j][1]) = created[j]

\* C3: while the response of a succeeded job is being transmitted, its output
\* file exists, holds what the transcoder wrote, none of its scratch files
\* has been deleted and no cleanup of the job has run.
C3_NoCleanupBeforeTransmitted ==
    \A j \in Jobs :
        pc[j] = "SUCCEEDED" =>
            /\ Exists(output_mp4_path[j])
            /\ disk[output_mp4_path[j]].data = "video"
            /\ \A p \in JobPaths(j) : Exists(p)
            /\ nImmediate[j] = 0
            /\ nDeferred[j] = 0

C3_Witness ==
    \E j \in Jobs :
        /\ pc[j] = "SUCCEEDED"
        /\ sent[j] = 1
        /\ input_srt_path[j] \notin { None, input_aac_path[j] }
        /\ \E i \in Jobs \ { j } : nImmediate[i] = 1

\* C4: once the response of a succeeded job has been sent, its deferred
\* cleanup is due and can run, and once that has run, none of the job's paths
\* (audio input, subtitle input, output) exists in the scratch directory.
C4_AllPathsAbsentAfterDelivery ==
    \A j \in Jobs :
        /\ pc[j] = "SENT" => ENABLED RunBackground(j)
        /\ pc[j] = "DELIVERED" =>
              /\ nDeferred[j] = 1
              /\ \A p \in JobPaths(j) : ~ Exists(p)

C4_Witness ==
    \E j \in Jobs :
        /\ pc[j] = "DELIVERED"
        /\ fault[j] = ""
        /\ sent[j] = MaxChunks
        /\ input_srt_path[j] \notin { None, input_aac_path[j] }
        /\ input_aac_path[j] # output_mp4_path[j]

\* C5: when the caller disconnects while the output of a succeeded job is
\* being transmitted, the deferred cleanup is still due or has run, and once
\* the job has ended none of its scratch files is left.
C5_DisconnectStillCleans ==
    \A j \in Jobs :
        fault[j] = "ClientDisconnect" =>
            /\ pc[j] \in { "SENT", "DELIVERED" }
            /\ Finished(j) => \A p \in JobPaths(j) : ~ Exists(p)

\* C6: any fault raised in a job, cancellation of the awaiting task included,
\* ends the job FAILED with its cleanup run at once and a single response of
\* status 500, never a success response.
C6_AnyFaultFailsWith500 ==
    \A j \in Jobs :
        fault[j] \notin { "", "ClientDisconnect" } =>
            /\ pc[j] = "FAILED"
            /\ nImmediate[j] = 1
            /\ nDeferred[j] = 0
            /\ resp[j].status = 500

\* C7: after a non-zero exit of the external process the response is a 500
\* whose detail is the failure message followed by the captured stderr text,
\* trimmed, and the job's output file is not on disk.
C7_NonZeroExitReportsStderr ==
    \A j \in Jobs :
        (proc[j].state = "exited" /\ proc[j].returncode # 0) =>
            /\ resp[j].status = 500
            /\ resp[j].detail =
                   S("FFmpeg conversion failed: ") \o Strip(proc[j].stderr)
            /\ ~ Exists(output_mp4_path[j])

\* C8: the scratch paths of two jobs are disjoint whatever the uploads are
\* called, and every file on disk lies on a path of the job that wrote it, so
\* it is never a path another job reads, writes or deletes.
C8_JobsNeverSharePaths ==
    \A i \in Jobs : \A j \in Jobs \ { i } :
        /\ JobPaths(i) \cap JobPaths(j) = {}
        /\ \A p \in DOMAIN disk : disk[p].owner = i => p \notin JobPaths(j)
        /\ \A p \in created[i] : p \in JobPaths(i) /\ p \notin JobPaths(j)

C8_Witness ==
    \E i \in Jobs : \E j \in Jobs \ { i } :
        /\ audio_name[i] = audio_name[j]
        /\ sub_name[i] = sub_name[j]
        /\ sub_name[i] # None
        /\ pc[i] = "RUNNING" /\ proc[i].state = "wrote"
        /\ pc[j] = "RUNNING" /\ proc[j].state = "wrote"
        /\ Cardinality(DOMAIN disk) >= 4

\* The steps a job takes on its own: all of JobStep but the faults that are
\* thrown at it from outside.
Progress(j) ==
    \/ Receive(j)
    \/ SaveAudio(j)
    \/ SaveSubtitle(j)
    \/ Launch(j)
    \/ ProcExit(j)
    \/ SendChunk(j)
    \/ RunBackground(j)

\* C9: while a job is suspended at an await (upload read, process launch,
\* process completion), every other job that has not ended can take its own
\* next step.
C9_WaitingJobBlocksNoOther ==
    \A i \in Jobs : \A j \in Jobs \ { i } :
        (Awaiting(i) /\ ~ Finished(j)) => ENABLED Progress(j)

C9_Witness ==
    \E i \in Jobs : \E j \in Jobs \ { i } :
        /\ pc[i] = "RUNNING" /\ proc[i].state = "running"
        /\ pc[j] = "SUCCEEDED" /\ sent[j] = 1

\* The arguments that follow an "-i", in order.
InputsOf(c) ==
    LET F[i \in 0 .. Len(c)] ==
            IF i = 0 THEN <<>>
            ELSE IF i > 1 /\ c[i - 1] = S("-i")
                 THEN Append(F[i - 1], c[i])
                 ELSE F[i - 1]
    IN  F[Len(c)]

HasOption(c, o) == \E i \in DOMAIN c : c[i] = S(o)

NotBackslash(t) == t # "\\"

\* e is path p written for a filter argument: backslashes of p are slashes,
\* and the only backslashes of e are one in front of every colon.
IsEscapeOf(e, p) ==
    LET plain == SelectSeq(e, NotBackslash)
    IN  /\ Len(plain) = Len(p)
        /\ \A k \in DOMAIN p : plain[k] = (IF p[k] = "\\" THEN "/" ELSE p[k])
        /\ \A k \in DOMAIN e :
              /\ e[k] = ":" => (k > 1 /\ e[k - 1] = "\\")
              /\ e[k] = "\\" => (k < Len(e) /\ e[k + 1] = ":")

\* The argument vector has the filter that burns in the subtitle file srt.
HasBurnIn(c, srt) ==
    \E i \in 1 .. Len(c) - 1 :
        /\ c[i] = S("-vf")
        /\ c[i + 1] # <<>>
        /\ Head(c[i + 1]) = "subtitles="
        /\ IsEscapeOf(Tail(c[i + 1]), srt)

\* C10: with a subtitle and mode 'hard' the argument vector has the burn-in
\* filter on the escaped subtitle path, exactly the two inputs image and
\* audio, no subtitle codec option and no subtitle language metadata.
C10_HardModeBurnsIn ==
    \A j \in Jobs :
        (cmd[j] # <<>> /\ input_srt_path[j] # None /\ subtitle_mode[j] = "hard") =>
            /\ HasBurnIn(cmd[j], input_srt_path[j])
            /\ InputsOf(cmd[j]) = << LOGO_PATH, input_aac_path[j] >>
            /\ ~ HasOption(cmd[j], "-c:s")
            /\ ~ HasOption(cmd[j], "-metadata:s:s:0")
            /\ ~ HasOption(cmd[j], "language=eng")

C10_Witness ==
    \E j \in Jobs :
        /\ pc[j] = "RUNNING"
        /\ subtitle_mode[j] = "hard"
        /\ input_srt_path[j] # None
        /\ ":" \in SeqToSet(input_srt_path[j])
        /\ "\\" \in SeqToSet(input_srt_path[j])
        /\ HasBurnIn(cmd[j], input_srt_path[j])

\* Option a directly followed by value b.
HasPair(c, a, b) ==
    \E i \in 1 .. Len(c) - 1 : c[i] = S(a) /\ c[i + 1] = S(b)

\* C11: with a subtitle and mode 'soft' the argument vector has the subtitle
\* file as third input after image and audio, the text-track subtitle codec,
\* a language tag, stream-copied audio and no burn-in filter.
C11_SoftModeAddsTrack ==
    \A j \in Jobs :
        (cmd[j] # <<>> /\ input_srt_path[j] # None /\ subtitle_mode[j] = "soft") =>
            /\ InputsOf(cmd[j]) =
                   << LOGO_PATH, input_aac_path[j], input_srt_path[j] >>
            /\ HasPair(cmd[j], "-c:s", "mov_text")
            /\ HasPair(cmd[j], "-metadata:s:s:0", "language=eng")
            /\ HasPair(cmd[j], "-c:a", "copy")
            /\ ~ HasOption(cmd[j], "-vf")
            /\ \A i \in DOMAIN cmd[j] : Head(cmd[j][i]) # "subtitles="

C11_Witness ==
    \E j \in Jobs :
        /\ pc[j] = "COMMAND_BUILT"
        /\ subtitle_mode[j] = "soft"
        /\ input_srt_path[j] \notin { None, input_aac_path[j] }
        /\ Len(InputsOf(cmd[j])) = 3

\* C12: every argument vector loop-decodes the image (the loop option comes
\* right before the image input), stream-copies the audio, has the
\* stop-at-shortest option and ends with the overwrite option and the job's
\* output path.
C12_FixedOptionsAlways ==
    \A j \in Jobs :
        cmd[j] # <<>> =>
            LET c == cmd[j]
                n == Len(cmd[j])
            IN  /\ \E i \in 1 .. n - 3 :
                      /\ c[i] = S("-loop") /\ c[i + 1] = S("1")
                      /\ c[i + 2] = S("-i") /\ c[i + 3] = LOGO_PATH
                /\ InputsOf(c)[1] = LOGO_PATH
                /\ HasPair(c, "-c:a", "copy")
                /\ HasOption(c, "-shortest")
                /\ c[n - 1] = S("-y")
                /\ c[n] = output_mp4_path[j]
                /\ output_mp4_path[j] = ScratchPath(job_id[j], S("output.mp4"))

C12_Witness ==
    \E i \in Jobs : \E j \in Jobs \ { i } :
        /\ cmd[i] # <<>> /\ cmd[j] # <<>>
        /\ sub_name[i] = None
        /\ sub_name[j] # None /\ subtitle_mode[j] = "soft"

\* The shape of an argument vector: every job-specific path replaced by a
\* placeholder, everything else kept.
ShapeOf(c) ==
    [ k \in DOMAIN c |->
        IF Head(c[k]) = Head(TEMP_DIR) THEN << "PATH" >>
        ELSE IF Head(c[k]) = "subtitles=" THEN << "subtitles=", "PATH" >>
        ELSE c[k] ]

\* C13: two jobs with the same (image present, subtitle present, subtitle
\* mode) get argument vectors of the same shape, whatever their job ids and
\* file names.
C13_SameTripleSameShape ==
    \A i \in Jobs : \A j \in Jobs :
        ( /\ cmd[i] # <<>> /\ cmd[j] # <<>>
          /\ (sub_name[i] = None) = (sub_name[j] = None)
          /\ subtitle_mode[i] = subtitle_mode[j] )
        => ShapeOf(cmd[i]) = ShapeOf(cmd[j])

C13_Witness ==
    \E i \in Jobs : \E j \in Jobs \ { i } :
        /\ cmd[i] # <<>> /\ cmd[j] # <<>>
        /\ subtitle_mode[i] = "hard" /\ subtitle_mode[j] = "hard"
        /\ sub_name[i] # None /\ sub_name[j] # None
        /\ sub_name[i] # sub_name[j]
        /\ audio_name[i] # audio_name[j]
        /\ Len(cmd[i]) = Len(cmd[j])

\* C14: the subtitle mode of a job whose argument vector was built, or whose
\* external process was started, is 'hard' or 'soft'.
C14_ModeIsHardOrSoft ==
    \A j \in Jobs :
        (cmd[j] # <<>> \/ proc[j].state # "none") =>
            subtitle_mode[j] \in { "hard", "soft" }

\* C19: within one job the audio input path, the subtitle input path (when
\* there is one) and the output path are pairwise distinct.
C19_JobPathsPairwiseDistinct ==
    \A j \in Jobs :
        /\ (input_aac_path[j] # None /\ input_srt_path[j] # None) =>
               input_aac_path[j] # input_srt_path[j]
        /\ output_mp4_path[j] # None =>
               /\ output_mp4_path[j] # input_aac_path[j]
               /\ output_mp4_path[j] # input_srt_path[j]

\* The vector gives the subtitle its own track: codec and language options.
HasTrackOptions(c) ==
    HasPair(c, "-c:s", "mov_text") /\ HasPair(c, "-metadata:s:s:0", "language=eng")

\* The subtitle file is an input of the vector (the third, after image and
\* audio).
HasSubtitleInput(c, srt) ==
    srt # None /\ Len(InputsOf(c)) = 3 /\ InputsOf(c)[3] = srt

\* C20: in every argument vector the subtitle-track options are present
\* exactly when the subtitle file is an input, and a job with a subtitle gets
\* exactly one treatment: the burn-in filter or the subtitle track.
C20_TrackOptionsIffSubtitleInput ==
    \A j \in Jobs :
        cmd[j] # <<>> =>
            LET c == cmd[j]
                srt == input_srt_path[j]
            IN  /\ (HasOption(c, "-c:s") \/ HasOption(c, "-metadata:s:s:0"))
                       <=> HasSubtitleInput(c, srt)
                /\ HasTrackOptions(c) <=> HasSubtitleInput(c, srt)
                /\ srt # None =>
                       (HasOption(c, "-vf") <=> ~ HasTrackOptions(c))
                /\ srt = None =>
                       (~ HasOption(c, "-vf") /\ ~ HasTrackOptions(c))

\* The state of the job's state machine that a position of the handler, or
\* of the response that follows it, belongs to.  Saving the last upload and
\* building the vector are one step, so INPUTS_SAVED is passed inside the
\* step from RECEIVED to COMMAND_BUILT.  A cancelled job stays where it was.
StageOf(p) ==
    CASE p = "IDLE" -> "NONE"
      [] p \in { "RECEIVED", "AUDIO_SAVED" } -> "RECEIVED"
      [] p \in { "SUCCEEDED", "SENT", "DELIVERED", "ABORTED" } -> "SUCCEEDED"
      [] OTHER -> p

AllowedMoves ==
    { << "NONE", "RECEIVED" >>,
      << "RECEIVED", "COMMAND_BUILT" >>, << "RECEIVED", "FAILED" >>,
      << "COMMAND_BUILT", "RUNNING" >>, << "COMMAND_BUILT", "FAILED" >>,
      << "RUNNING", "SUCCEEDED" >>, << "RUNNING", "FAILED" >>,
      << "RECEIVED", "CANCELLED" >>, << "COMMAND_BUILT", "CANCELLED" >>,
      << "RUNNING", "CANCELLED" >> }

\* Path p holds a completely written upload that the job has registered.
Saved(j, p) ==
    /\ Exists(p)
    /\ disk[p].data # "partial"
    /\ p \in SeqToSet(files_to_clean[j])

\* Every upload the request provides has been saved.
InputsSaved(j) ==
    /\ Saved(j, input_aac_path[j])
    /\ sub_name[j] # None =>
           (input_srt_path[j] # None /\ Saved(j, input_srt_path[j]))

\* C15: a job changes state only along RECEIVED, INPUTS_SAVED, COMMAND_BUILT,
\* RUNNING, then SUCCEEDED or FAILED; the vector is built and the process
\* launched only with every provided upload saved; SUCCEEDED is entered from
\* RUNNING only; SUCCEEDED and FAILED are never left.
C15_StateOrder ==
    [][ \A j \in Jobs :
          LET a == StageOf(pc[j])
              b == StageOf(pc'[j])
          IN  /\ a # b => << a, b >> \in AllowedMoves
              /\ (a = "RECEIVED" /\ b = "COMMAND_BUILT") => InputsSaved(j)'
              /\ (proc[j].state = "none" /\ proc'[j].state # "none") =>
                     (a = "COMMAND_BUILT" /\ b = "RUNNING" /\ InputsSaved(j))
              /\ pc[j] = "FAILED" => (pc'[j] = "FAILED" /\ resp'[j] = resp[j])
              /\ a = "SUCCEEDED" => resp'[j] = resp[j]
    ]_vars

C15_Witness ==
    \E i \in Jobs : \E j \in Jobs \ { i } :
        /\ pc[i] = "DELIVERED" /\ sub_name[i] # None
        /\ pc[j] = "FAILED" /\ proc[j].state = "exited"

\* C16: after the external process has exited, the job has succeeded exactly
\* when the exit status is zero and has failed exactly when it is not,
\* whatever was captured from stderr.
C16_ExitStatusAloneDecides ==
    \A j \in Jobs :
        proc[j].state = "exited" =>
            /\ proc[j].returncode = 0 =>
                   (StageOf(pc[j]) = "SUCCEEDED" /\ resp[j].status = 200)
            /\ proc[j].returncode # 0 =>
                   (pc[j] = "FAILED" /\ resp[j].status = 500)

C16_Witness ==
    \E i \in Jobs : \E j \in Jobs \ { i } :
        /\ proc[i].state = "exited" /\ proc[i].returncode = 0
        /\ proc[i].stderr # <<>> /\ Decodable(proc[i].stderr)
        /\ pc[i] = "SUCCEEDED"
        /\ proc[j].state = "exited" /\ proc[j].returncode # 0
        /\ proc[j].stderr = <<>>
        /\ pc[j] = "FAILED"

\* C17: a call of cleanup_files with any list of paths (entries that are None,
\* files never created or already deleted, the same path twice) raises
\* nothing, and when it has returned no listed path exists.
C17_CleanupToleratesMissing ==
    \A j \in Jobs :
        pc[j] = "CLEANED" =>
            /\ fault[j] = ""
            /\ \A p \in SeqToSet(files_to_clean[j]) \ { None } : ~ Exists(p)

C17_Witness ==
    \E i \in Jobs : \E j \in Jobs \ { i } :
        /\ pc[i] = "CLEANED" /\ pc[j] = "CLEANED"
        /\ None \in SeqToSet(files_to_clean[i])
        /\ \E a \in DOMAIN files_to_clean[i] : \E b \in DOMAIN files_to_clean[i] :
              /\ a < b
              /\ files_to_clean[i][a] = files_to_clean[i][b]
              /\ files_to_clean[i][a] \in created[i]
        /\ \E q \in SeqToSet(files_to_clean[j]) \ { None } : q \notin created[j]
        /\ created[j] \cap SeqToSet(files_to_clean[j]) # {}

\* C18: when a job has failed on a non-zero exit and the deletion of one of
\* its files fails during the immediate cleanup, the caller still receives the
\* transcode error and every other listed path has been deleted.
C18_CleanupFailureSwallowed ==
    \A j \in Jobs :
        (pc[j] = "FAILED" /\ proc[j].state = "exited") =>
            /\ resp[j] = ErrorResponse(TranscodeError(proc[j].stderr))
            /\ Cardinality({ p \in SeqToSet(files_to_clean[j]) : Exists(p) }) <= 1

====
